---------------------------- MODULE Spec2Model ----------------------------
(***************************************************************************)
(* top-crates: the generator of the playground's Cargo.toml and            *)
(* crate-information.json (src/top-crates/src/main.rs).                    *)
(*                                                                         *)
(* Strings are sequences of one-character strings, so that the code's      *)
(* string operations (byte-wise comparison, replace, format!) are computed *)
(* rather than assumed.  The failures of the environment (the network, the *)
(* registry update, creating or writing a file) are left out: a run either *)
(* panics on its data or finishes.                                         *)
(***************************************************************************)
EXTENDS Integers, Sequences, FiniteSets, TLC

VARIABLES
    popular,            \* the crates.io answer of TopCrates::download
    modifications,      \* MODIFICATIONS (crate-modifications.toml)
    index,              \* the registry: name -> versions query_vec returns
    resolve_cache,      \* the resolver's answers: root requirements -> ids
    store,              \* the registry's packages: PackageId -> Package
    pc,                 \* position in main
    top,                \* top.crates (what is left of the iteration)
    summaries,          \* Vec of root summaries
    resolve,            \* the Resolve of main
    packages,           \* Vec<&Package> of main
    group,              \* key of the current group_by group
    first,              \* main's `first`
    dependencies,       \* BTreeMap<String, DependencySpec>
    infos,              \* Vec<CrateInformation>
    cargo_toml,         \* ../compiler/base/Cargo.toml
    crate_information,  \* ../compiler/base/crate-information.json
    runs,               \* how many times the program has been started
    previous            \* the two files as the previous run left them

vars == <<popular, modifications, index, resolve_cache, store, pc, top,
          summaries, resolve, packages, group, first, dependencies, infos,
          cargo_toml, crate_information, runs, previous>>

-----------------------------------------------------------------------------
(* Bounds of the model *)

MaxPopular == 2
MaxExtra == 1
MaxRuns == 2
MaxFeatures == 2

-----------------------------------------------------------------------------
(* Strings *)

\* The characters the model uses, in ascending byte order.
AsciiTable ==
    << "-", ".", "/", "0", "1", "2", "3", "4", "5", "6", "7", "8", "9", "=",
       "_", "a", "b", "c", "d", "e", "f", "g", "h", "i", "j", "k", "l", "m",
       "n", "o", "p", "q", "r", "s", "t", "u", "v", "w", "x", "y", "z" >>

Byte(c) == CHOOSE i \in 1..Len(AsciiTable) : AsciiTable[i] = c

\* str::cmp: -1, 0 or 1, byte-wise lexicographic.
RECURSIVE StrCmp(_, _)
StrCmp(a, b) ==
    IF a = <<>> /\ b = <<>> THEN 0
    ELSE IF a = <<>> THEN -1
    ELSE IF b = <<>> THEN 1
    ELSE IF Byte(Head(a)) < Byte(Head(b)) THEN -1
    ELSE IF Byte(Head(a)) > Byte(Head(b)) THEN 1
    ELSE StrCmp(Tail(a), Tail(b))

\* str::replace for a single character.
Replace(s, from, to) == [i \in 1..Len(s) |-> IF s[i] = from THEN to ELSE s[i]]

Digits == << "0", "1", "2", "3", "4", "5", "6", "7", "8", "9" >>

\* Display of an unsigned integer.
RECURSIVE Decimal(_)
Decimal(n) ==
    IF n < 10 THEN << Digits[n + 1] >>
    ELSE Decimal(n \div 10) \o << Digits[(n % 10) + 1] >>

RECURSIVE Join(_, _)
Join(parts, sep) ==
    IF parts = <<>> THEN <<>>
    ELSE IF Len(parts) = 1 THEN parts[1]
    ELSE parts[1] \o sep \o Join(Tail(parts), sep)

\* The elements of a set of strings as a sequence in ascending order
\* (the iteration order of a BTreeSet<String> / BTreeMap<String, _>).
RECURSIVE SortedStrings(_)
SortedStrings(S) ==
    IF S = {} THEN <<>>
    ELSE LET m == CHOOSE x \in S : \A y \in S : StrCmp(x, y) <= 0
         IN  << m >> \o SortedStrings(S \ {m})

Range(s) == {s[i] : i \in 1..Len(s)}

-----------------------------------------------------------------------------
(* semver::Version *)

Version(major, minor, patch, pre) ==
    [major |-> major, minor |-> minor, patch |-> patch, pre |-> pre]

IntCmp(a, b) == IF a < b THEN -1 ELSE IF a > b THEN 1 ELSE 0

\* Vec<Identifier>::cmp for alphanumeric identifiers.
RECURSIVE PreCmp(_, _)
PreCmp(a, b) ==
    IF a = <<>> /\ b = <<>> THEN 0
    ELSE IF a = <<>> THEN -1
    ELSE IF b = <<>> THEN 1
    ELSE IF StrCmp(Head(a), Head(b)) # 0 THEN StrCmp(Head(a), Head(b))
    ELSE PreCmp(Tail(a), Tail(b))

\* Version::cmp: major, minor, patch, then a release above its pre-releases.
VersionCmp(a, b) ==
    IF a.major # b.major THEN IntCmp(a.major, b.major)
    ELSE IF a.minor # b.minor THEN IntCmp(a.minor, b.minor)
    ELSE IF a.patch # b.patch THEN IntCmp(a.patch, b.patch)
    ELSE IF a.pre = <<>> /\ b.pre = <<>> THEN 0
    ELSE IF a.pre = <<>> THEN 1
    ELSE IF b.pre = <<>> THEN -1
    ELSE PreCmp(a.pre, b.pre)

is_prerelease(v) == v.pre # <<>>

\* Display of a Version: "1.2.3" or "1.2.3-alpha".
VersionToString(v) ==
    Decimal(v.major) \o <<".">> \o Decimal(v.minor) \o <<".">> \o Decimal(v.patch)
        \o (IF v.pre = <<>> THEN <<>> ELSE <<"-">> \o Join(v.pre, <<".">>))


-----------------------------------------------------------------------------
(* Option<T>: None is the empty sequence, Some(v) the one-element one. *)

None == <<>>
Some(v) == << v >>

-----------------------------------------------------------------------------
(* The universe the registry, the popularity list and the modifications     *)
(* file are drawn from.                                                     *)

md_dash_5 == << "m", "d", "-", "5" >>
md5 == << "m", "d", "5" >>
Names == { md_dash_5, md5 }

alpha == << "a", "l", "p", "h", "a" >>
beta == << "b", "e", "t", "a" >>

Versions ==
    { Version(1, 0, 0, <<>>), Version(2, 0, 0, <<>>),
      Version(2, 0, 0, << beta >>), Version(2, 1, 0, << alpha >>) }

PackageId(name, version) == [name |-> name, version |-> version]
PackageIds == { PackageId(n, v) : n \in Names, v \in Versions }

f_default == << "d", "e", "f", "a", "u", "l", "t" >>
f_std == << "s", "t", "d" >>
f_x == << "x" >>
FeatureNames == { f_default, f_std, f_x }
dep == << "d", "e", "p" >>

\* cargo's FeatureValue
Feature(f) == [kind |-> "Feature", dep |-> <<>>, feat |-> f]
CrateFeature(d, f) == [kind |-> "CrateFeature", dep |-> d, feat |-> f]

Target(kind, name) == [kind |-> kind, name |-> name]

\* [package.metadata.playground]
NoMetadata == [kind |-> "absent"]
MalformedMetadata == [kind |-> "malformed"]
Metadata(features, default_features, all_features) ==
    [kind |-> "ok", features |-> features,
     default_features |-> default_features, all_features |-> all_features]

\* A package of the registry: its targets, its [features] table and its
\* playground metadata.
Descriptor(targets, features, metadata) ==
    [targets |-> targets, features |-> features, metadata |-> metadata]

Package(id, d) ==
    [name |-> id.name, version |-> id.version, targets |-> d.targets,
     features |-> d.features, metadata |-> d.metadata]


-----------------------------------------------------------------------------
(* The functions of main.rs *)

\* Modifications::blacklisted. The blacklist, a Vec, is only ever searched,
\* so it is kept as the set of its elements.
blacklisted(mods, name) == \E n \in mods.blacklist : n = name

\* TopCrates::add_curated_crates: the additions, a BTreeSet, are appended in
\* ascending order to the downloaded list.
add_curated_crates_deduplicated(crates, mods) ==
    crates \o SortedStrings(mods.additions \ Range(crates))

add_curated_crates(crates, mods) == crates \o SortedStrings(mods.additions)

\* main, "Find the newest non-prelease version": filter, then max_by_key.
\* The versions of one crate differ, so the maximum is a single summary.
NewestNonPrerelease_unfiltered(matches) ==
    IF matches = {} THEN None
    ELSE Some(CHOOSE v \in matches : \A w \in matches : VersionCmp(w, v) <= 0)

NewestNonPrerelease(matches) ==
    LET viable == { v \in matches : ~is_prerelease(v) }
    IN  IF viable = {} THEN None
        ELSE Some(CHOOSE v \in viable : \A w \in viable : VersionCmp(w, v) <= 0)

\* main: package_ids, the resolved ids without the blacklisted names.
package_ids_unfiltered(resolved, mods) == resolved

package_ids(resolved, mods) ==
    { id \in resolved : ~blacklisted(mods, id.name) }

\* Target::crate_name
crate_name(target) == Replace(target.name, "-", "_")

\* main: the crate names of the library targets, in target order.
LibCrateNames_any_target(pkg) ==
    [i \in 1..Len(pkg.targets) |-> crate_name(pkg.targets[i])]


LibCrateNames(pkg) ==
    LET libs == SelectSeq(pkg.targets, LAMBDA t : t.kind = "lib")
    IN  [i \in 1..Len(libs) |-> crate_name(libs[i])]

\* main: exposed_name
ExposedName(name, version, is_first) ==
    IF is_first THEN name
    ELSE name \o <<"_">> \o Decimal(version.major) \o <<"_">>
              \o Decimal(version.minor) \o <<"_">> \o Decimal(version.patch)

\* FeatureValue::to_string (without namespaced features)
FeatureValueToString(fv) ==
    IF fv.kind = "CrateFeature" THEN fv.dep \o <<"/">> \o fv.feat ELSE fv.feat

\* playground_metadata_features: the features before the defaults are removed.
EnabledFeatures_all_added(pkg) ==
    IF pkg.metadata.all_features
    THEN DOMAIN pkg.features \cup Range(pkg.metadata.features)
    ELSE Range(pkg.metadata.features)

EnabledFeatures(pkg) ==
    IF pkg.metadata.all_features THEN DOMAIN pkg.features
    ELSE Range(pkg.metadata.features)

\* playground_metadata_features: "remove default features from the explicit
\* features list".
RemoveDefaultFeatures_name_only(pkg, enabled) ==
    IF pkg.metadata.default_features /\ f_default \in DOMAIN pkg.features
    THEN enabled \ { f_default }
    ELSE enabled

RemoveDefaultFeatures(pkg, enabled) ==
    IF pkg.metadata.default_features /\ f_default \in DOMAIN pkg.features
    THEN (enabled \ { f_default })
            \ { FeatureValueToString(fv) : fv \in Range(pkg.features[f_default]) }
    ELSE enabled

playground_metadata_features(pkg) ==
    IF pkg.metadata.kind = "absent" THEN None
    ELSE IF pkg.metadata.kind = "malformed" THEN None
    ELSE LET enabled_features == RemoveDefaultFeatures(pkg, EnabledFeatures(pkg))
         IN  IF enabled_features # {} \/ ~pkg.metadata.default_features
             THEN Some(<< SortedStrings(enabled_features),
                          pkg.metadata.default_features >>)
             ELSE None

\* main: the comparator handed to packages.sort_by
PackageCmp_by_name(a, b) == StrCmp(a.name, b.name)

PackageCmp(a, b) ==
    IF StrCmp(a.name, b.name) # 0 THEN StrCmp(a.name, b.name)
    ELSE 0 - VersionCmp(a.version, b.version)

\* slice::sort_by, a stable sort: each element goes behind those not above it.
RECURSIVE sort_by(_)
sort_by(s) ==
    IF s = <<>> THEN <<>>
    ELSE LET n == Len(s)
             sorted == sort_by(SubSeq(s, 1, n - 1))
             k == Cardinality({ i \in 1..(n - 1) : PackageCmp(sorted[i], s[n]) <= 0 })
         IN  SubSeq(sorted, 1, k) \o << s[n] >> \o SubSeq(sorted, k + 1, n - 1)

\* exact_version
exact_version(version) == <<"=">> \o version

is_true(b) == b

\* DependencySpec's Serialize: the fields that are not skipped.
SerializeDependencySpec_no_skip(spec) ==
    ("package" :> spec.package)
    @@ ("version" :> exact_version(spec.version))
    @@ ("features" :> spec.features)
    @@ ("default-features" :> spec.default_features)

SerializeDependencySpec(spec) ==
    (IF spec.package = <<>> THEN <<>> ELSE ("package" :> spec.package))
    @@ ("version" :> exact_version(spec.version))
    @@ (IF spec.features = <<>> THEN <<>> ELSE ("features" :> spec.features))
    @@ (IF is_true(spec.default_features) THEN <<>>
        ELSE ("default-features" :> spec.default_features))

\* main and write_manifest: the TomlManifest as toml::to_vec lays it out, the
\* dependencies in the BTreeMap's key order.
TomlManifest(deps) ==
    [package |-> [name |-> "playground", version |-> "0.0.1",
                  authors |-> << "The Rust Playground" >>],
     profile |-> [dev |-> [codegen_units |-> 1, incremental |-> FALSE],
                  release |-> [codegen_units |-> 1, incremental |-> FALSE]],
     dependencies |->
        LET keys == SortedStrings(DOMAIN deps)
        IN  [i \in 1..Len(keys) |->
                [key |-> keys[i], table |-> SerializeDependencySpec(deps[keys[i]])]]]


-----------------------------------------------------------------------------
(* The collaborators: the resolver and the package source *)

\* cargo's resolver activates one version of a crate per semver-compatible
\* range.
SemverCompatible(a, b) ==
    IF a.major # b.major THEN FALSE
    ELSE IF a.major # 0 THEN TRUE
    ELSE IF a.minor # b.minor THEN FALSE
    ELSE IF a.minor # 0 THEN TRUE
    ELSE a.patch = b.patch

Activatable(ids) ==
    \A a \in ids : \A b \in ids :
        (a.name = b.name /\ SemverCompatible(a.version, b.version)) => a = b

\* resolver::resolve: the roots and at most `extra` transitive dependencies
\* of theirs, each a version the registry holds; nothing without a root.
ResolveAnswers(roots, extra) ==
    LET known == { id \in PackageIds : id.version \in index[id.name] }
    IN  IF roots = {} THEN { {} }
        ELSE { roots \cup e : e \in { e \in SUBSET (known \ roots) :
                                        /\ Cardinality(e) <= extra
                                        /\ Activatable(roots \cup e) } }

\* The orders in which PackageSet::get_many may hand back the packages.
Orders(ids) ==
    LET n == Cardinality(ids)
    IN  { o \in [1..n -> ids] : \A id \in ids : \E i \in 1..n : o[i] = id }

-----------------------------------------------------------------------------
(* main *)

\* TopCrates::download
Download ==
    /\ pc = "download"
    /\ top' = popular
    /\ pc' = "add_curated_crates"
    /\ UNCHANGED <<popular, modifications, index, resolve_cache, store,
                   summaries, resolve, packages, group, first, dependencies,
                   infos, cargo_toml, crate_information, runs, previous>>

AddCuratedCrates ==
    /\ pc = "add_curated_crates"
    /\ top' = add_curated_crates(top, modifications)
    /\ pc' = "select"
    /\ UNCHANGED <<popular, modifications, index, resolve_cache, store,
                   summaries, resolve, packages, group, first, dependencies,
                   infos, cargo_toml, crate_information, runs, previous>>

\* One iteration of `for Crate { ref name } in top.crates`.
SelectVersion ==
    /\ pc = "select"
    /\ top # <<>>
    /\ LET name == Head(top)
           summary == NewestNonPrerelease(index[name])
       IN  IF blacklisted(modifications, name)
           THEN /\ top' = Tail(top)
                /\ UNCHANGED <<pc, summaries>>
           ELSE IF summary = None
           THEN /\ pc' = "panicked"
                /\ UNCHANGED <<top, summaries>>
           ELSE /\ top' = Tail(top)
                /\ summaries' = Append(summaries, PackageId(name, summary[1]))
                /\ UNCHANGED pc
    /\ UNCHANGED <<popular, modifications, index, resolve_cache, store,
                   resolve, packages, group, first, dependencies, infos,
                   cargo_toml, crate_information, runs, previous>>

\* resolver::resolve on the summaries; the same requirements get the same
\* answer.
Resolve(extra) ==
    /\ pc = "select"
    /\ top = <<>>
    /\ LET roots == Range(summaries)
       IN  IF roots \in DOMAIN resolve_cache
           THEN /\ resolve' = resolve_cache[roots]
                /\ UNCHANGED resolve_cache
           ELSE \E answer \in ResolveAnswers(roots, extra) :
                    /\ resolve' = answer
                    /\ resolve_cache' = (roots :> answer) @@ resolve_cache
    /\ pc' = "fetch"
    /\ UNCHANGED <<popular, modifications, index, store, top, summaries,
                   packages, group, first, dependencies, infos, cargo_toml,
                   crate_information, runs, previous>>

\* package_ids, PackageSet::new and get_many: the packages of the resolved
\* ids that are not blacklisted, in any order. `descriptors` gives, by name,
\* what a package not fetched before may look like.
Fetch(descriptors) ==
    /\ pc = "fetch"
    /\ LET ids == package_ids(resolve, modifications)
           fresh == ids \ DOMAIN store
       IN  \E found \in { f \in [fresh -> UNION { descriptors[n] : n \in Names }] :
                            \A id \in fresh : f[id] \in descriptors[id.name] } :
           \E order \in Orders(ids) :
               /\ store' = found @@ store
               /\ packages' = [i \in 1..Len(order) |->
                                  Package(order[i], (found @@ store)[order[i]])]
    /\ pc' = "sort"
    /\ UNCHANGED <<popular, modifications, index, resolve_cache, top,
                   summaries, resolve, group, first, dependencies, infos,
                   cargo_toml, crate_information, runs, previous>>

SortPackages ==
    /\ pc = "sort"
    /\ packages' = sort_by(packages)
    /\ pc' = "group"
    /\ UNCHANGED <<popular, modifications, index, resolve_cache, store, top,
                   summaries, resolve, group, first, dependencies, infos,
                   cargo_toml, crate_information, runs, previous>>

\* One iteration of the inner loop `for pkg in pkgs`; a package whose name
\* differs from the previous one's opens a new group, which resets `first`.
ProcessPackage ==
    /\ pc = "group"
    /\ packages # <<>>
    /\ LET pkg == Head(packages)
           is_first == IF group = Some(pkg.name) THEN first ELSE TRUE
           libs == LibCrateNames(pkg)
           exposed_name == ExposedName(Head(libs), pkg.version, is_first)
           found == playground_metadata_features(pkg)
           features == IF found = None THEN <<>> ELSE found[1][1]
           default_features == IF found = None THEN TRUE ELSE found[1][2]
       IN  IF libs = <<>>
           THEN /\ pc' = "panicked"
                /\ UNCHANGED <<packages, group, first, dependencies, infos>>
           ELSE /\ dependencies' =
                      (exposed_name :>
                          [package |-> pkg.name,
                           version |-> VersionToString(pkg.version),
                           features |-> features,
                           default_features |-> default_features])
                      @@ dependencies
                /\ infos' = Append(infos,
                      [name |-> pkg.name,
                       version |-> VersionToString(pkg.version),
                       id |-> exposed_name])
                /\ first' = FALSE
                /\ group' = Some(pkg.name)
                /\ packages' = Tail(packages)
                /\ UNCHANGED pc
    /\ UNCHANGED <<popular, modifications, index, resolve_cache, store, top,
                   summaries, resolve, cargo_toml, crate_information, runs,
                   previous>>

\* write_manifest
WriteManifest ==
    /\ pc = "group"
    /\ packages = <<>>
    /\ cargo_toml' = Some(TomlManifest(dependencies))
    /\ pc' = "write_infos"
    /\ UNCHANGED <<popular, modifications, index, resolve_cache, store, top,
                   summaries, resolve, packages, group, first, dependencies,
                   infos, crate_information, runs, previous>>

\* File::create and serde_json::to_writer_pretty
WriteInfos ==
    /\ pc = "write_infos"
    /\ crate_information' = Some(infos)
    /\ pc' = "done"
    /\ UNCHANGED <<popular, modifications, index, resolve_cache, store, top,
                   summaries, resolve, packages, group, first, dependencies,
                   infos, cargo_toml, runs, previous>>

\* The program is run again on the same inputs and registry; the two files
\* of the finished run stay on disk.
RunAgain ==
    /\ pc = "done"
    /\ runs < MaxRuns
    /\ runs' = runs + 1
    /\ previous' = Some(<< cargo_toml, crate_information >>)
    /\ pc' = "download"
    /\ top' = <<>>
    /\ summaries' = <<>>
    /\ resolve' = {}
    /\ packages' = <<>>
    /\ group' = None
    /\ first' = TRUE
    /\ dependencies' = <<>>
    /\ infos' = <<>>
    /\ UNCHANGED <<popular, modifications, index, resolve_cache, store,
                   cargo_toml, crate_information>>

-----------------------------------------------------------------------------
(* Inputs *)

PopularLists == UNION { [1..n -> Names] : n \in 0..MaxPopular }

AllModifications == [blacklist : SUBSET Names, additions : SUBSET Names]

AllIndexes == [Names -> SUBSET Versions]

V100 == Version(1, 0, 0, <<>>)
V200 == Version(2, 0, 0, <<>>)
V200beta == Version(2, 0, 0, << beta >>)
V210alpha == Version(2, 1, 0, << alpha >>)

PipelineIndexes ==
    { [n \in Names |-> { V100, V200 }],
      (md_dash_5 :> { V100, V200beta, V210alpha }) @@ (md5 :> { V200 }),
      (md_dash_5 :> { V100 }) @@ (md5 :> { V210alpha }) }

\* A library under the package's name, a binary beside a library called
\* md5, and a binary alone.
TargetLists(name) ==
    { << Target("lib", name) >>,
      << Target("bin", name), Target("lib", md5) >>,
      << Target("bin", name) >> }

PlainDescriptors ==
    [n \in Names |-> { Descriptor(<< Target("lib", n) >>, <<>>, NoMetadata) }]

PipelineDescriptors ==
    [n \in Names |-> { Descriptor(t, <<>>, NoMetadata) : t \in TargetLists(n) }]

InitWith(populars, mods, indexes) ==
    /\ popular \in populars
    /\ modifications \in mods
    /\ index \in indexes
    /\ resolve_cache = <<>>
    /\ store = <<>>
    /\ pc = "download"
    /\ top = <<>>
    /\ summaries = <<>>
    /\ resolve = {}
    /\ packages = <<>>
    /\ group = None
    /\ first = TRUE
    /\ dependencies = <<>>
    /\ infos = <<>>
    /\ cargo_toml = None
    /\ crate_information = None
    /\ runs = 1
    /\ previous = None

Init == InitWith(PopularLists, AllModifications, PipelineIndexes)

Next ==
    \/ Download
    \/ AddCuratedCrates
    \/ SelectVersion
    \/ Resolve(MaxExtra)
    \/ Fetch(PipelineDescriptors)
    \/ SortPackages
    \/ ProcessPackage
    \/ WriteManifest
    \/ WriteInfos

Spec == Init /\ [][Next]_vars


-----------------------------------------------------------------------------
(* What the claims speak of *)

\* The packages main fetched: resolved and not blacklisted.
Fetched ==
    IF pc \in { "sort", "group", "write_infos", "done", "panicked" }
    THEN { id \in resolve : id.name \notin modifications.blacklist }
    ELSE {}

HasLibraryTarget(id) ==
    \E i \in 1..Len(store[id].targets) : store[id].targets[i].kind = "lib"

\* The crate name of a fetched package's first library target.
Canonical(id) ==
    LET t == store[id].targets
        i == CHOOSE i \in 1..Len(t) :
                /\ t[i].kind = "lib"
                /\ \A j \in 1..(i - 1) : t[j].kind # "lib"
    IN  Replace(t[i].name, "-", "_")

Suffixed(id) ==
    Canonical(id) \o <<"_">> \o Decimal(id.version.major) \o <<"_">>
        \o Decimal(id.version.minor) \o <<"_">> \o Decimal(id.version.patch)

Newest(id) ==
    \A other \in Fetched :
        other.name = id.name => VersionCmp(other.version, id.version) <= 0

ManifestEntries == IF cargo_toml = None THEN {} ELSE Range(cargo_toml[1].dependencies)

IndexEntries == IF crate_information = None THEN <<>> ELSE crate_information[1]

\* C1: every ExposedIdentifier of the output is unique: no two entries of
\* the index carry the same id, and the manifest has an entry for each.
C1_UniqueIdentifiers ==
    /\ \A i \in 1..Len(IndexEntries) : \A j \in 1..Len(IndexEntries) :
          i # j => IndexEntries[i].id # IndexEntries[j].id
    /\ pc = "done" => Cardinality(ManifestEntries) = Len(IndexEntries)

\* C2: per library name, the manifest entry of the newest version is keyed
\* by the bare canonical identifier and the entry of each other version by
\* canonical_major_minor_patch.
C2_BareAndSuffixed ==
    pc = "done" =>
        \A id \in Fetched :
            \E e \in ManifestEntries :
                /\ e.table["package"] = id.name
                /\ e.table["version"] = <<"=">> \o VersionToString(id.version)
                /\ e.key = IF Newest(id) THEN Canonical(id) ELSE Suffixed(id)

\* The same over the index alone: the entries of one name are the newest
\* version under the bare identifier, then the others suffixed.
C2_IndexBareAndSuffixed ==
    pc = "done" =>
        \A id \in Fetched :
            \E i \in 1..Len(IndexEntries) :
                /\ IndexEntries[i].name = id.name
                /\ IndexEntries[i].version = VersionToString(id.version)
                /\ IndexEntries[i].id = IF Newest(id) THEN Canonical(id) ELSE Suffixed(id)

\* C3: no blacklisted name is the package name of an entry of the manifest
\* or of the index.
C3_BlacklistedNeverEmitted ==
    /\ \A e \in ManifestEntries : e.table["package"] \notin modifications.blacklist
    /\ \A i \in 1..Len(IndexEntries) :
          IndexEntries[i].name \notin modifications.blacklist
    /\ \A i \in 1..Len(infos) : infos[i].name \notin modifications.blacklist

\* C3's case: the run finished with output although a blacklisted name was
\* a candidate and a blacklisted name was resolved as a dependency.
C3_Witness ==
    /\ pc = "done"
    /\ IndexEntries # <<>>
    /\ \E n \in modifications.blacklist :
          n \in Range(popular) \cup modifications.additions
    /\ \E id \in resolve : id.name \in modifications.blacklist

\* C8: once a fetched package has no library target, no output file exists
\* and the run cannot reach the writes: it is processing packages or has
\* panicked, and where it has stopped it has panicked.
C8_NoLibraryNoOutput ==
    (\E id \in Fetched : ~HasLibraryTarget(id)) =>
        /\ cargo_toml = None
        /\ crate_information = None
        /\ pc \in { "sort", "group", "panicked" }
        /\ (pc = "group" => packages # <<>>)

\* C8's case: the run panicked on a package without a library after it had
\* processed another package.
C8_Witness ==
    /\ pc = "panicked"
    /\ infos # <<>>
    /\ \E id \in Fetched : ~HasLibraryTarget(id)
    /\ ~HasLibraryTarget(PackageId(Head(packages).name, Head(packages).version))


-----------------------------------------------------------------------------
(* The catalog and the version selection, over every registry index *)

InitSelect == InitWith(PopularLists, AllModifications, AllIndexes)

NextSelect ==
    \/ Download
    \/ AddCuratedCrates
    \/ SelectVersion
    \/ Resolve(0)
    \/ Fetch(PlainDescriptors)
    \/ SortPackages
    \/ ProcessPackage
    \/ WriteManifest
    \/ WriteInfos

SpecSelect == InitSelect /\ [][NextSelect]_vars

\* The summaries are complete: the resolver has been called.
Selected == pc \in { "fetch", "sort", "group", "write_infos", "done" }

Candidates == (Range(popular) \cup modifications.additions) \ modifications.blacklist

Occurrences(seq, e) == Cardinality({ i \in 1..Len(seq) : seq[i] = e })

RootsOf(name) == { i \in 1..Len(summaries) : summaries[i].name = name }

\* C4 as stated: every candidate gets exactly one root requirement.
C4_OneRootPerCandidate ==
    Selected => \A n \in Candidates : Cardinality(RootsOf(n)) = 1

\* C4: the candidates are a list: a name gets one root requirement per
\* occurrence in the popularity list plus one if it is an addition, all of
\* them the same; the set of their names is
\* (popularity list + additions) - blacklist.
C4_OneRootPerOccurrence ==
    Selected =>
        /\ \A n \in Names :
              Cardinality(RootsOf(n)) =
                  IF n \in modifications.blacklist THEN 0
                  ELSE Occurrences(popular, n)
                          + (IF n \in modifications.additions THEN 1 ELSE 0)
        /\ \A i \in 1..Len(summaries) : \A j \in 1..Len(summaries) :
              summaries[i].name = summaries[j].name => summaries[i] = summaries[j]
        /\ { summaries[i].name : i \in 1..Len(summaries) } = Candidates

\* C4's case: a name of the popularity list that is also an addition has
\* been handed to the resolver.
C4_Witness ==
    /\ Selected
    /\ \E n \in Candidates : n \in Range(popular) /\ n \in modifications.additions

ReleaseAtMost(w, v) ==
    \/ w.major < v.major
    \/ w.major = v.major /\ w.minor < v.minor
    \/ w.major = v.major /\ w.minor = v.minor /\ w.patch <= v.patch

Viable(name) == { v \in index[name] : v.pre = <<>> }

\* C10: every root requirement is the greatest release the registry returns
\* for its name; once the resolver is called every candidate has one; and
\* while a candidate has no release no file is written and the run is still
\* selecting or has panicked.
C10_NewestRelease ==
    /\ \A i \in 1..Len(summaries) :
          /\ summaries[i].version \in Viable(summaries[i].name)
          /\ \A w \in Viable(summaries[i].name) :
                ReleaseAtMost(w, summaries[i].version)
    /\ Selected => { summaries[i].name : i \in 1..Len(summaries) } = Candidates
    /\ (\E n \in Candidates : Viable(n) = {}) =>
          /\ cargo_toml = None
          /\ crate_information = None
          /\ pc \in { "download", "add_curated_crates", "select", "panicked" }
          /\ (pc = "select" => top # <<>>)

\* C10's case: a finished run whose registry holds, for a candidate, a
\* pre-release above the release that was chosen and a release below it.
C10_Witness ==
    /\ pc = "done"
    /\ \E i \in 1..Len(summaries) :
          /\ \E w \in index[summaries[i].name] :
                w.pre # <<>> /\ ~ReleaseAtMost(w, summaries[i].version)
          /\ \E w \in Viable(summaries[i].name) : w # summaries[i].version


-----------------------------------------------------------------------------
(* One package, over every [features] table and playground metadata *)

dep_std == dep \o <<"/">> \o f_std

\* What the default feature of a package may imply.
DefaultGroups ==
    { <<>>, << Feature(f_x) >>, << Feature(f_x), CrateFeature(dep, f_std) >> }

\* The [features] tables: any of the feature names declared.
FeatureTables ==
    UNION { { [f \in declared |-> IF f = f_default THEN g ELSE <<>>] :
                g \in DefaultGroups } : declared \in SUBSET FeatureNames }

MetadataLists ==
    UNION { [1..n -> FeatureNames \cup { dep_std }] : n \in 0..MaxFeatures }

Metadatas ==
    { NoMetadata, MalformedMetadata }
        \cup { Metadata(l, d, a) : l \in MetadataLists, d \in BOOLEAN, a \in BOOLEAN }

FeatureDescriptors ==
    [n \in Names |->
        { Descriptor(<< Target("lib", n) >>, t, m) : t \in FeatureTables, m \in Metadatas }]

InitFeatures ==
    InitWith({ << n >> : n \in Names },
             { [blacklist |-> {}, additions |-> {}] },
             { [n \in Names |-> { V100, V200 }] })

NextFeatures ==
    \/ Download
    \/ AddCuratedCrates
    \/ SelectVersion
    \/ Resolve(0)
    \/ Fetch(FeatureDescriptors)
    \/ SortPackages
    \/ ProcessPackage
    \/ WriteManifest
    \/ WriteInfos

SpecFeatures == InitFeatures /\ [][NextFeatures]_vars

\* The fetched package a DependencySpec was made from.
PackageOf(spec) ==
    CHOOSE id \in Fetched :
        id.name = spec.package /\ VersionToString(id.version) = spec.version

\* The names the package's own default feature implies.
Implied(d) ==
    IF f_default \in DOMAIN d.features
    THEN { IF fv.kind = "CrateFeature" THEN fv.dep \o <<"/">> \o fv.feat ELSE fv.feat :
              fv \in Range(d.features[f_default]) }
    ELSE {}

Specs == { dependencies[k] : k \in DOMAIN dependencies }

\* C6 as stated: with default-features true the recorded features hold
\* neither "default" nor a name the default feature implies, for every
\* library.
C6_NoDefaultsRecorded ==
    \A spec \in Specs :
        LET d == store[PackageOf(spec)]
        IN  (d.metadata.kind = "ok" /\ d.metadata.default_features) =>
                /\ f_default \notin Range(spec.features)
                /\ Range(spec.features) \cap Implied(d) = {}

\* C6: with default-features true and a library that declares a default
\* feature, the recorded features hold neither "default" nor a name the
\* default feature implies; for a library that declares none nothing is
\* removed, so a listed "default" stays.
C6_NoDefaultsRecordedIfDeclared ==
    \A spec \in Specs :
        LET d == store[PackageOf(spec)]
            chosen == IF d.metadata.all_features THEN DOMAIN d.features
                      ELSE Range(d.metadata.features)
        IN  (d.metadata.kind = "ok" /\ d.metadata.default_features) =>
                /\ spec.default_features = TRUE
                /\ IF f_default \in DOMAIN d.features
                   THEN Range(spec.features) = (chosen \ { f_default }) \ Implied(d)
                   ELSE Range(spec.features) = chosen

\* C6's case: the default feature implies x and dep/std, the metadata asks
\* for exactly those with default-features true, and nothing is recorded.
C6_Witness ==
    \E spec \in Specs :
        LET d == store[PackageOf(spec)]
        IN  /\ d.metadata.kind = "ok"
            /\ d.metadata.default_features
            /\ ~d.metadata.all_features
            /\ Implied(d) = { f_x, dep_std }
            /\ Range(d.metadata.features) = { f_x, dep_std }
            /\ spec.features = <<>>
            /\ spec.default_features = TRUE

\* C7: with all-features true the recorded features are the declared
\* feature names, whatever the metadata lists, without "default" and the
\* implied names when default-features is true; they are listed once each,
\* and the recorded default-features is the metadata's.
C7_AllFeatures ==
    \A spec \in Specs :
        LET d == store[PackageOf(spec)]
        IN  (d.metadata.kind = "ok" /\ d.metadata.all_features) =>
                /\ Range(spec.features) =
                      IF d.metadata.default_features
                      THEN (DOMAIN d.features \ { f_default }) \ Implied(d)
                      ELSE DOMAIN d.features
                /\ Len(spec.features) = Cardinality(Range(spec.features))
                /\ spec.default_features = d.metadata.default_features

\* C7's case: all-features with a features list naming an undeclared
\* feature, on a library that declares std and x.
C7_Witness ==
    \E spec \in Specs :
        LET d == store[PackageOf(spec)]
        IN  /\ d.metadata.kind = "ok"
            /\ d.metadata.all_features
            /\ DOMAIN d.features = { f_std, f_x }
            /\ dep_std \in Range(d.metadata.features)
            /\ Range(spec.features) = { f_std, f_x }

\* C9 as stated: an entry of the manifest omits `package` exactly when the
\* package name is the entry's key, `features` exactly when empty and
\* `default-features` exactly when true.
C9_PackageOmittedIfKey ==
    \A e \in ManifestEntries :
        LET spec == dependencies[e.key]
        IN  /\ ("package" \in DOMAIN e.table) <=> (spec.package # e.key)
            /\ ("features" \in DOMAIN e.table) <=> (spec.features # <<>>)
            /\ ("default-features" \in DOMAIN e.table) <=> ~spec.default_features

\* C9: an entry of the manifest always carries `package`, the real name,
\* also when that is the entry's key; it omits `features` exactly when
\* empty and `default-features` exactly when true.
C9_PackageAlwaysWritten ==
    \A e \in ManifestEntries :
        LET spec == dependencies[e.key]
        IN  /\ "package" \in DOMAIN e.table
            /\ e.table["package"] = spec.package
            /\ e.table["version"] = <<"=">> \o spec.version
            /\ ("features" \in DOMAIN e.table) <=> (spec.features # <<>>)
            /\ "features" \in DOMAIN e.table => e.table["features"] = spec.features
            /\ ("default-features" \in DOMAIN e.table) <=> ~spec.default_features
            /\ "default-features" \in DOMAIN e.table => e.table["default-features"] = FALSE

\* C9's case: a written entry whose package name is its key, with plain
\* defaults, so that both optional fields are omitted.
C9_Witness ==
    \E e \in ManifestEntries :
        /\ dependencies[e.key].package = e.key
        /\ DOMAIN e.table = { "package", "version" }


-----------------------------------------------------------------------------
(* Repeated runs on the same inputs and registry *)

NextRepeated ==
    \/ Download
    \/ AddCuratedCrates
    \/ SelectVersion
    \/ Resolve(MaxExtra)
    \/ Fetch(PipelineDescriptors)
    \/ SortPackages
    \/ ProcessPackage
    \/ WriteManifest
    \/ WriteInfos
    \/ RunAgain

SpecRepeated == Init /\ [][NextRepeated]_vars

\* C5: a run that finishes after an earlier run on the same popularity list,
\* modifications and registry leaves the same manifest and the same index,
\* whatever order the packages were fetched in.
C5_Deterministic ==
    (pc = "done" /\ previous # None) =>
        previous[1] = << cargo_toml, crate_information >>

\* C5's case: a second run has finished and written several versions of
\* one crate beside another crate.
C5_Witness ==
    /\ pc = "done"
    /\ previous # None
    /\ Len(IndexEntries) >= 3
    /\ \E i \in 1..Len(IndexEntries) : IndexEntries[i].name # IndexEntries[1].name

=============================================================================
